---------------------------- MODULE Spec2Model ----------------------------
(***************************************************************************)
(* Model of src/main.rs: an RTIC application on the RP2040 that drives a   *)
(* W5500 Ethernet chip.  One hardware task (irq_bank0) and three software  *)
(* tasks (timeout_tracker, dhcp_task, secop_task) share the chip handle    *)
(* `w5500`, the DHCP client `dhcp` and the renewal deadline                *)
(* `dhcp_spawn_at`.                                                        *)
(*                                                                         *)
(* The model has one variable per piece of program or hardware state, one  *)
(* action per step of a task body, and the environment actions of the      *)
(* hardware (clock tick, socket event, segment reception, glitch on the    *)
(* interrupt line).  The RTIC scheduling rules (fixed priorities, resource *)
(* ceilings, message queues of capacity 1) are modelled from the task      *)
(* attributes of the source.                                               *)
(***************************************************************************)
EXTENDS Integers, Sequences, FiniteSets, TLC

(***************************************************************************)
(* Bounds of the model.                                                    *)
(***************************************************************************)
\* the monotonic clock is explored up to this many 0.1 s ticks
MaxTicks == 10
\* a socket of the chip that the program does not use, and whose interrupt
\* bit may nevertheless show up in SIR
OtherSn == 2
\* the longest segment a client sends exceeds the buffer by this many bytes
ExtraLen == 1
\* the negotiator, when it succeeds, asks to be called after 1..MaxLease s
MaxLease == 1
\* the request counters kept for the properties saturate at this value
MaxCount == 2
\* at most this many clock ticks elapse while handlers run back to back,
\* i.e. between two visits of the idle loop
MaxLag == 0
\* with the always-failing negotiator the clock is explored up to this tick
LongTicks == 100
\* in the scenarios with finitely many interrupts: the number of socket
\* events and glitches, and the tick up to which the clock is explored
MaxEvents == 1
LiveTicks == 10

(***************************************************************************)
(* Program constants.                                                      *)
(***************************************************************************)
\* const SECOP_PORT: u16 = 10767
SECOP_PORT == 10767
\* const DHCP_SN: Sn = Sn::Sn0
DHCP_SN == 0
\* const SECOP_SN: Sn = Sn::Sn1
SECOP_SN == 1
\* type MyMono = Systick<10>: ticks per second of the monotonic clock
TICK_HZ == 10
\* let mut buf = [0; 256]
BUF_LEN == 256
\* Err(e) => { ...; 5 }
RETRY_SECS == 5

Tasks == {"irq_bank0", "timeout_tracker", "dhcp_task", "secop_task"}
SoftTasks == {"timeout_tracker", "dhcp_task", "secop_task"}
Resources == {"w5500", "dhcp", "dhcp_spawn_at"}

\* Option<T>: None is the empty sequence, Some(x) the sequence <<x>>
None == << >>
Some(x) == << x >>

Max(S) == CHOOSE x \in S : \A y \in S : y <= x
Min2(a, b) == IF a <= b THEN a ELSE b

(***************************************************************************)
(* Bit arithmetic on the 8-bit socket interrupt register.                  *)
(***************************************************************************)
Pow2(n) == IF n = 0 THEN 1 ELSE IF n = 1 THEN 2 ELSE IF n = 2 THEN 4
           ELSE IF n = 3 THEN 8 ELSE IF n = 4 THEN 16 ELSE IF n = 5 THEN 32
           ELSE IF n = 6 THEN 64 ELSE 128
Bit(v, n) == (v \div Pow2(n)) % 2
RECURSIVE BitAndFrom(_, _, _)
BitAndFrom(a, b, n) ==
    IF n > 7 THEN 0
    ELSE Pow2(n) * Bit(a, n) * Bit(b, n) + BitAndFrom(a, b, n + 1)
BitAnd(a, b) == BitAndFrom(a, b, 0)
BitOr(a, b) == a + b - BitAnd(a, b)
BitClear(a, b) == a - BitAnd(a, b)
\* Sn::bitmask(): 1 << sn
bitmask(sn) == Pow2(sn)

VARIABLES
    ticks,            \* monotonic clock, in ticks of 1/TICK_HZ s
    lag,              \* ticks elapsed since the processor last left idle
    edge,             \* EdgeLow interrupt latch of irq_pin (IO_IRQ_BANK0 pending)
    sir,              \* W5500 socket interrupt register (SIR)
    rxq,              \* bytes waiting in the RX buffer of socket SECOP_SN
    negotiator,       \* "failing": dhcp.process always returns Err
    panicked,         \* an unwrap() failed: the program has halted
    dhcp_spawn_at,    \* Shared.dhcp_spawn_at: Option<u32>
    rq,               \* ready queue of the priority-1 dispatcher (FIFO)
    tq,               \* timer queue: release instants of timeout_tracker
    stack,            \* active handlers, innermost last
    pc,               \* position of each task in its body
    irq_sir,          \* irq_bank0: let sir
    tt_now,           \* timeout_tracker: let now
    dhcp_now,         \* dhcp_task: let now
    spawn_after_secs, \* dhcp_task: let spawn_after_secs
    irq_req,          \* spawns requested by the current/last irq_bank0 run
    irq_rej,          \* ... of which rejected ("already spawned" logged)
    tt_req,           \* spawns requested by the current/last tracker run
    tt_rej,           \* ... of which rejected
    tt_saw,           \* dhcp_spawn_at as found by the last tracker check
    trig,             \* tracker renewal requests since the deadline was set
    buf,              \* secop_task: let mut buf
    rx_bytes,         \* secop_task: let rx_bytes
    tx_sent,          \* bytes handed to tcp_write by the running secop_task
    rx_live,          \* RX buffer contents when the running secop_task read it
    rxlen_at_irq,     \* bytes waiting when irq_bank0 last requested secop_task
    secop_irqs,       \* irq_bank0 runs that requested secop_task since it last started
    secop_served,     \* ... as counted when the running secop_task started
    served_rxlen,     \* rxlen_at_irq when the running secop_task started
    dhcp_res,         \* dhcp_task: result of dhcp.process (Err is -1)
    dhcp_saw,         \* dhcp_spawn_at as found by the running dhcp_task
    secop_sock,       \* configuration of socket SECOP_SN in the chip
    budget            \* socket events and glitches still to come; None: any number

irqv == << irq_sir, irq_req, irq_rej >>
ttv == << tt_now, tt_req, tt_rej, tt_saw >>
dhcpv == << dhcp_now, dhcp_res, spawn_after_secs, dhcp_saw >>
secopv == << buf, rx_bytes, tx_sent, rx_live, secop_served, served_rxlen >>
vars == << ticks, lag, edge, sir, rxq, negotiator, panicked, dhcp_spawn_at, rq, tq,
           stack, pc, irqv, ttv, dhcpv, secopv, trig, rxlen_at_irq, secop_irqs,
           budget, secop_sock >>


(***************************************************************************)
(* RTIC scheduling: priorities, resource ceilings, message queues.         *)
(***************************************************************************)
\* the interrupt handler given a priority above the software tasks
PrioIrqHigh(t) == IF t = "irq_bank0" THEN 2 ELSE 1
\* #[task(...)] without `priority = N`: every task has the default priority 1
Prio(t) == 1

\* two message slots per software task
CapacityTwo(t) == 2
\* #[task(...)] without `capacity = N`: one message slot per software task
Capacity(t) == 1

\* shared = [...] of the task attributes
Users(r) ==
    IF r = "w5500" THEN {"irq_bank0", "dhcp_task", "secop_task"}
    ELSE IF r = "dhcp" THEN {"dhcp_task"}
    ELSE {"timeout_tracker", "dhcp_task"}

\* ceiling of a resource: the highest priority among the tasks that share it
Ceiling(r) == Max({Prio(t) : t \in Users(r)})

\* resources locked by task t at its current position (the lock closures)
Held(t) ==
    IF t = "irq_bank0" /\ pc[t] \in {"clear", "decode"} THEN {"w5500"}
    ELSE IF t = "dhcp_task" /\ pc[t] = "store"
        THEN {"w5500", "dhcp", "dhcp_spawn_at"}
    ELSE IF t = "secop_task" /\ pc[t] = "write" THEN {"w5500"}
    ELSE {}

\* task t is inside its critical section on the chip handle
InW5500(t) == "w5500" \in Held(t)

\* dispatchers = [UART0_IRQ, ...]: the software tasks of one priority level
\* are run by one dispatcher interrupt at that priority; the timer queue
\* handler (SysTick) runs at the same priority
DispPrio == Max({Prio(t) : t \in SoftTasks})

\* the software task the dispatcher is running, if any
Cur == {t \in SoftTasks : pc[t] # "idle"}

\* priority at which handler c currently executes (raised by its locks)
CtxPrio(c) ==
    IF c = "irq_bank0"
    THEN Max({Prio(c)} \cup {Ceiling(r) : r \in Held(c)})
    ELSE Max({DispPrio} \cup {Ceiling(r) : r \in UNION {Held(t) : t \in Cur}})

\* current priority of the processor; idle runs at priority 0
CurPrio ==
    IF stack = << >> THEN 0
    ELSE Max({CtxPrio(stack[i]) : i \in 1..Len(stack)})

Active(c) == \E i \in 1..Len(stack) : stack[i] = c

\* a pending handler taken also at equal priority
PreemptsEqual(p) == p >= CurPrio
\* a pending handler of priority p is taken iff p exceeds the current priority
Preempts(p) == p > CurPrio

IrqPending == edge /\ ~Active("irq_bank0")
DispPending == rq # << >> /\ ~Active("disp")
TqDue == tq # << >> /\ ticks >= Head(tq)

PreemptPending ==
    \/ IrqPending /\ Preempts(Prio("irq_bank0"))
    \/ DispPending /\ Preempts(DispPrio)
    \/ TqDue /\ Preempts(DispPrio)

\* handler c is the one executing, and nothing is about to preempt it
Runs(c) ==
    /\ ~panicked
    /\ stack # << >>
    /\ stack[Len(stack)] = c
    /\ ~PreemptPending

\* software task t is executing at position l
At(t, l) == Runs("disp") /\ pc[t] = l

Pop == SubSeq(stack, 1, Len(stack) - 1)

\* number of messages of task t in queue q
Count(t, q) == Cardinality({i \in 1..Len(q) : q[i] = t})

\* the message slot of an instance is given back only when it returns
QueuedOrRunning(t, q) ==
    Count(t, q) + (IF t = "timeout_tracker" THEN Len(tq) ELSE 0)
                + (IF pc[t] # "idle" THEN 1 ELSE 0)
\* instances of t waiting to run: in the ready queue q or in the timer queue
Queued(t, q) ==
    Count(t, q) + (IF t = "timeout_tracker" THEN Len(tq) ELSE 0)

\* t::spawn() succeeds iff a message slot of t is free
SpawnOk(t, q) == Queued(t, q) < Capacity(t)

\* a spawn that reports success or failure but queues nothing
SpawnQDropped(t, q) == q
\* ready queue after t::spawn() on ready queue q
SpawnQ(t, q) == IF SpawnOk(t, q) THEN Append(q, t) ELSE q

(***************************************************************************)
(* Clock and driver operations.                                            *)
(***************************************************************************)
\* monotonic_secs(): now().duration_since_epoch().to_secs()
monotonic_secs == ticks \div TICK_HZ

\* tcp_read(sn, &mut buf): min(received size, buf.len()) bytes are copied
\* to the front of buf and removed from the RX buffer
\* [0; 256]
ZeroBuf == [i \in 1..BUF_LEN |-> 0]
tcp_read_len(q, b) == Min2(Len(q), Len(b))
tcp_read_buf(q, b) ==
    [i \in 1..Len(b) |-> IF i <= tcp_read_len(q, b) THEN q[i] ELSE b[i]]
tcp_read_rest(q, b) == SubSeq(q, tcp_read_len(q, b) + 1, Len(q))

\* the slice handed to tcp_write: &buf[..rx_bytes as usize]
WriteWholeBuf(b, n) == b
write_slice(b, n) == SubSeq(b, 1, n)

\* segments a client may send to the service socket: one longer than the
\* buffer (its tail is read by a later run) and one that just fills it
LongSegment == [i \in 1..(BUF_LEN + ExtraLen) |-> i % 256]
Segments == {LongSegment, SubSeq(LongSegment, 1, BUF_LEN)}

\* results of dhcp.process(w5500, now): -1 stands for Err(e), s for Ok(s)
ProcessErr == -1
ProcessResults ==
    IF negotiator = "failing" THEN {ProcessErr}
    ELSE {ProcessErr} \cup (1..MaxLease)

(***************************************************************************)
(* Initial state: init() has returned.                                     *)
\* the service socket as init leaves it: w5500.close(SECOP_SN);
\* w5500.set_sn_imr(SECOP_SN, MASK); w5500.tcp_listen(SECOP_SN, SECOP_PORT)
Listening ==
    [open |-> TRUE, port |-> SECOP_PORT, imr |-> {"recv", "con", "discon"}]

(***************************************************************************)
InitOf(mode, events) ==
    /\ negotiator = mode
    /\ budget = events
    /\ secop_sock = Listening
    /\ ticks = 0
    /\ lag = 0
    /\ edge = FALSE
    /\ sir = 0
    /\ rxq = << >>
    /\ panicked = FALSE
    /\ dhcp_spawn_at = None
    /\ rq = << "dhcp_task", "timeout_tracker" >>
    /\ tq = << >>
    /\ stack = << >>
    /\ pc = [t \in Tasks |-> "idle"]
    /\ irq_sir = 0
    /\ tt_now = 0
    /\ dhcp_now = 0
    /\ spawn_after_secs = 0
    /\ irq_req = {}
    /\ irq_rej = {}
    /\ tt_req = {}
    /\ tt_rej = {}
    /\ tt_saw = None
    /\ trig = 0
    /\ buf = ZeroBuf
    /\ rx_bytes = 0
    /\ tx_sent = << >>
    /\ rx_live = << >>
    /\ rxlen_at_irq = 0
    /\ secop_irqs = 0
    /\ secop_served = 0
    /\ served_rxlen = 0
    /\ dhcp_res = 0
    /\ dhcp_saw = None

\* any number of socket events and glitches may occur
InitWith(mode) == InitOf(mode, None)

\* the negotiator may succeed or fail at each call
Init == InitWith("working")

\* the negotiator fails at every call
InitFail == InitWith("failing")

(***************************************************************************)
(* Hardware environment.                                                   *)
(***************************************************************************)
\* the SysTick counter advances by one tick; a pending interrupt that can be
\* taken is taken before the next tick (interrupt latency is far below 0.1 s)
TickTo(limit, maxlag) ==
    /\ ~panicked
    /\ ~PreemptPending
    /\ ticks < limit
    /\ ticks' = ticks + 1
    /\ IF stack = << >>
       THEN lag' = 0
       ELSE lag < maxlag /\ lag' = lag + 1
    /\ UNCHANGED << edge, sir, rxq, negotiator, secop_sock, budget, panicked,
                    dhcp_spawn_at, rq, tq, stack, pc, irqv, ttv, dhcpv, secopv,
                    trig, rxlen_at_irq, secop_irqs >>

\* one event of the environment is used up
Spend(b) == IF b = None THEN None ELSE Some(b[1] - 1)

\* socket n of the W5500 raises a socket interrupt: its SIR bit is set and
\* the INTn line falls
SocketEvent(n) ==
    /\ ~panicked
    /\ budget # Some(0)
    /\ budget' = Spend(budget)
    /\ sir' = BitOr(sir, bitmask(n))
    /\ edge' = TRUE
    /\ UNCHANGED << ticks, lag, rxq, negotiator, secop_sock, panicked,
                    dhcp_spawn_at, rq, tq, stack, pc, irqv, ttv, dhcpv, secopv,
                    trig, rxlen_at_irq, secop_irqs >>

\* a segment arrives on the service socket (the client sends its next
\* request once the previous one has been read); the INTn line falls unless
\* it is still low from an earlier event
Receive(seg) ==
    /\ ~panicked
    /\ budget # Some(0)
    /\ budget' = Spend(budget)
    /\ rxq = << >>
    /\ rxq' = rxq \o seg
    /\ sir' = BitOr(sir, bitmask(SECOP_SN))
    /\ edge' \in {edge, TRUE}
    /\ UNCHANGED << ticks, lag, negotiator, secop_sock, panicked,
                    dhcp_spawn_at, rq, tq, stack, pc, irqv, ttv, dhcpv, secopv,
                    trig, rxlen_at_irq, secop_irqs >>

\* a segment arrives and no edge is seen on the interrupt line for it
ReceiveSilent(seg) == Receive(seg) /\ edge' = edge

\* a falling edge on the interrupt line with no socket event behind it
Glitch ==
    /\ ~panicked
    /\ budget # Some(0)
    /\ budget' = Spend(budget)
    /\ ~edge
    /\ edge' = TRUE
    /\ UNCHANGED << ticks, lag, sir, rxq, negotiator, secop_sock, panicked,
                    dhcp_spawn_at, rq, tq, stack, pc, irqv, ttv, dhcpv, secopv,
                    trig, rxlen_at_irq, secop_irqs >>

Tick == TickTo(MaxTicks, MaxLag)

(***************************************************************************)
(* Dispatcher and timer queue.                                             *)
(***************************************************************************)
\* a dequeued instance is dropped without running
EntryIdle(t) == "idle"
\* timeout_tracker starts at its clock reading, without the re-arm
EntrySkipRearm(t) == IF t = "timeout_tracker" THEN "now" ELSE "lock"
\* first position of a software task's body
Entry(t) == IF t = "timeout_tracker" THEN "rearm" ELSE "lock"

\* the timer queue handler moves a due timeout_tracker to the ready queue
TimerFire ==
    /\ ~panicked
    /\ TqDue
    /\ Preempts(DispPrio)
    /\ tq' = Tail(tq)
    /\ rq' = Append(rq, "timeout_tracker")
    /\ UNCHANGED << ticks, lag, edge, sir, rxq, negotiator, secop_sock, budget,
                    panicked, dhcp_spawn_at, stack, pc, irqv, ttv, dhcpv,
                    secopv, trig, rxlen_at_irq, secop_irqs >>

\* the dispatcher interrupt is taken
DispEnter ==
    /\ ~panicked
    /\ DispPending
    /\ Preempts(DispPrio)
    /\ stack' = Append(stack, "disp")
    /\ UNCHANGED << ticks, lag, edge, sir, rxq, negotiator, secop_sock, budget,
                    panicked, dhcp_spawn_at, rq, tq, pc, irqv, ttv, dhcpv,
                    secopv, trig, rxlen_at_irq, secop_irqs >>

\* the dispatcher dequeues the next ready task, frees its slot and calls it
DispNext ==
    /\ Runs("disp")
    /\ Cur = {}
    /\ rq # << >>
    /\ rq' = Tail(rq)
    /\ pc' = [pc EXCEPT ![Head(rq)] = Entry(Head(rq))]
    /\ IF Head(rq) = "secop_task"
       THEN /\ secop_served' = secop_irqs
            /\ served_rxlen' = rxlen_at_irq
            /\ secop_irqs' = 0
            /\ rxlen_at_irq' = 0
       ELSE UNCHANGED << secop_served, served_rxlen, secop_irqs,
                         rxlen_at_irq >>
    /\ UNCHANGED << ticks, lag, edge, sir, rxq, negotiator, secop_sock, budget,
                    panicked, dhcp_spawn_at, tq, stack, irqv, ttv, dhcpv, buf,
                    rx_bytes, tx_sent, rx_live, trig >>

\* the ready queue is empty: the dispatcher returns
DispExit ==
    /\ Runs("disp")
    /\ Cur = {}
    /\ rq = << >>
    /\ stack' = Pop
    /\ lag' = (IF Pop = << >> THEN 0 ELSE lag)
    /\ UNCHANGED << ticks, edge, sir, rxq, negotiator, secop_sock, budget,
                    panicked, dhcp_spawn_at, rq, tq, pc, irqv, ttv, dhcpv,
                    secopv, trig, rxlen_at_irq, secop_irqs >>

(***************************************************************************)
(* irq_bank0: IRQ handler for the W5500, dispatching tasks by socket.      *)
(***************************************************************************)
\* the socket number used where its bitmask is meant
BitSetByIndex(v, sn) == BitAnd(v, sn) # 0
\* sir & sn.bitmask() != 0
BitSet(v, sn) == BitAnd(v, bitmask(sn)) # 0

Sat(n) == Min2(n + 1, MaxCount)

\* IO_IRQ_BANK0 is taken
IrqEnter ==
    /\ ~panicked
    /\ IrqPending
    /\ Preempts(Prio("irq_bank0"))
    /\ stack' = Append(stack, "irq_bank0")
    /\ pc' = [pc EXCEPT !["irq_bank0"] = "lock"]
    /\ UNCHANGED << ticks, lag, edge, sir, rxq, negotiator, secop_sock, budget,
                    panicked, dhcp_spawn_at, rq, tq, irqv, ttv, dhcpv, secopv,
                    trig, rxlen_at_irq, secop_irqs >>

\* cx.shared.w5500.lock(|w5500| {
\* let sir: u8 = w5500.sir().unwrap();
\* (the value read may also carry the bit of a socket the program does not use)
IrqReadSir ==
    /\ Runs("irq_bank0")
    /\ pc["irq_bank0"] = "lock"
    /\ irq_sir' \in {sir, BitOr(sir, bitmask(OtherSn))}
    /\ pc' = [pc EXCEPT !["irq_bank0"] = "clear"]
    /\ UNCHANGED << ticks, lag, edge, sir, rxq, negotiator, secop_sock, budget,
                    panicked, dhcp_spawn_at, rq, tq, stack, irq_req, irq_rej,
                    ttv, dhcpv, secopv, trig, rxlen_at_irq, secop_irqs >>

\* a handler that leaves the edge latch alone when the status read was zero
IrqClearIfNonzero ==
    /\ Runs("irq_bank0")
    /\ pc["irq_bank0"] = "clear"
    /\ edge' = (IF irq_sir = 0 THEN edge ELSE FALSE)
    /\ pc' = [pc EXCEPT !["irq_bank0"] = "decode"]
    /\ UNCHANGED << ticks, lag, sir, rxq, negotiator, secop_sock, budget,
                    panicked, dhcp_spawn_at, rq, tq, stack, irqv, ttv, dhcpv,
                    secopv, trig, rxlen_at_irq, secop_irqs >>

\* cx.local.irq_pin.clear_interrupt(Interrupt::EdgeLow);
IrqClear ==
    /\ Runs("irq_bank0")
    /\ pc["irq_bank0"] = "clear"
    /\ edge' = FALSE
    /\ pc' = [pc EXCEPT !["irq_bank0"] = "decode"]
    /\ UNCHANGED << ticks, lag, sir, rxq, negotiator, secop_sock, budget,
                    panicked, dhcp_spawn_at, rq, tq, stack, irqv, ttv, dhcpv,
                    secopv, trig, rxlen_at_irq, secop_irqs >>

\* a handler that requests the service task before looking at the status
IrqDecodeEager ==
    /\ Runs("irq_bank0")
    /\ pc["irq_bank0"] = "decode"
    /\ rq' = SpawnQ("secop_task", rq)
    /\ irq_req' = {"secop_task"}
    /\ irq_rej' = {t \in {"secop_task"} : ~SpawnOk(t, rq)}
    /\ rxlen_at_irq' = Len(rxq)
    /\ secop_irqs' = Sat(secop_irqs)
    /\ pc' = [pc EXCEPT !["irq_bank0"] = "ret"]
    /\ UNCHANGED << ticks, lag, edge, sir, rxq, negotiator, secop_sock, budget,
                    panicked, dhcp_spawn_at, tq, stack, irq_sir, ttv, dhcpv,
                    secopv, trig >>

\* if sir == 0 { warn!(..); return; }
\* if sir & DHCP_SN.bitmask() != 0 { if dhcp_task::spawn().is_err() {..} }
\* if sir & SECOP_SN.bitmask() != 0 { if secop_task::spawn().is_err() {..} }
IrqDecode ==
    /\ Runs("irq_bank0")
    /\ pc["irq_bank0"] = "decode"
    /\ pc' = [pc EXCEPT !["irq_bank0"] = "ret"]
    /\ IF irq_sir = 0
       THEN UNCHANGED << rq, irq_req, irq_rej, rxlen_at_irq, secop_irqs >>
       ELSE LET d == BitSet(irq_sir, DHCP_SN)
                s == BitSet(irq_sir, SECOP_SN)
                q1 == IF d THEN SpawnQ("dhcp_task", rq) ELSE rq
                q2 == IF s THEN SpawnQ("secop_task", q1) ELSE q1
            IN /\ rq' = q2
               /\ irq_req' = {t \in {"dhcp_task"} : d}
                             \cup {t \in {"secop_task"} : s}
               /\ irq_rej' = {t \in {"dhcp_task"} : d /\ ~SpawnOk(t, rq)}
                             \cup {t \in {"secop_task"} : s /\ ~SpawnOk(t, q1)}
               /\ IF s
                  THEN /\ rxlen_at_irq' = Len(rxq)
                       /\ secop_irqs' = Sat(secop_irqs)
                  ELSE UNCHANGED << rxlen_at_irq, secop_irqs >>
    /\ UNCHANGED << ticks, lag, edge, sir, rxq, negotiator, secop_sock, budget,
                    panicked, dhcp_spawn_at, tq, stack, irq_sir, ttv, dhcpv,
                    secopv, trig >>

\* the handler returns; its locals are gone
IrqReturn ==
    /\ Runs("irq_bank0")
    /\ pc["irq_bank0"] = "ret"
    /\ stack' = Pop
    /\ pc' = [pc EXCEPT !["irq_bank0"] = "idle"]
    /\ irq_sir' = 0
    /\ irq_req' = {}
    /\ irq_rej' = {}
    /\ lag' = (IF Pop = << >> THEN 0 ELSE lag)
    /\ UNCHANGED << ticks, edge, sir, rxq, negotiator, secop_sock, budget,
                    panicked, dhcp_spawn_at, rq, tq, ttv, dhcpv, secopv, trig,
                    rxlen_at_irq, secop_irqs >>

(***************************************************************************)
(* timeout_tracker: task to spawn DHCP actions when necessary.             *)
(***************************************************************************)
\* 1.secs()
PERIOD_SECS == 1

\* `now >= *then` with the comparison made strict
DueStrict(now, then) == now > then
\* `now >= *then` with the comparison reversed
DueReversed(now, then) == now <= then
\* now >= *then
Due(now, then) == now >= then

\* the deadline d is kept when the spawn request was rejected
ClearedIfSpawned(ok, d) == IF ok THEN None ELSE d
\* *dhcp_spawn_at = None; after the spawn request, whatever its outcome ok
Cleared(ok, d) == None

\* timeout_tracker::spawn_after(1.secs()).unwrap();
TtRearm ==
    /\ At("timeout_tracker", "rearm")
    /\ pc' = [pc EXCEPT !["timeout_tracker"] = "now"]
    /\ IF SpawnOk("timeout_tracker", rq)
       THEN /\ tq' = Append(tq, ticks + PERIOD_SECS * TICK_HZ)
            /\ UNCHANGED panicked
       ELSE /\ panicked' = TRUE
            /\ UNCHANGED tq
    /\ UNCHANGED << ticks, lag, edge, sir, rxq, negotiator, secop_sock, budget,
                    dhcp_spawn_at, rq, stack, irqv, ttv, dhcpv, secopv, trig,
                    rxlen_at_irq, secop_irqs >>

\* let now: u32 = monotonic_secs();
TtNow ==
    /\ At("timeout_tracker", "now")
    /\ tt_now' = monotonic_secs
    /\ pc' = [pc EXCEPT !["timeout_tracker"] = "check"]
    /\ UNCHANGED << ticks, lag, edge, sir, rxq, negotiator, secop_sock, budget,
                    panicked, dhcp_spawn_at, rq, tq, stack, irqv, tt_req,
                    tt_rej, tt_saw, dhcpv, secopv, trig, rxlen_at_irq,
                    secop_irqs >>

\* cx.shared.dhcp_spawn_at.lock(|dhcp_spawn_at| {
\*     if let Some(then) = dhcp_spawn_at { if now >= *then {
\*         if dhcp_task::spawn().is_err() {..}  *dhcp_spawn_at = None; } } });
TtCheck ==
    /\ At("timeout_tracker", "check")
    /\ pc' = [pc EXCEPT !["timeout_tracker"] = "secop"]
    /\ tt_saw' = dhcp_spawn_at
    /\ IF dhcp_spawn_at # None /\ Due(tt_now, dhcp_spawn_at[1])
       THEN /\ rq' = SpawnQ("dhcp_task", rq)
            /\ tt_req' = tt_req \cup {"dhcp_task"}
            /\ tt_rej' = tt_rej \cup {t \in {"dhcp_task"} : ~SpawnOk(t, rq)}
            /\ dhcp_spawn_at' = Cleared(SpawnOk("dhcp_task", rq), dhcp_spawn_at)
            /\ trig' = Sat(trig)
       ELSE UNCHANGED << rq, tt_req, tt_rej, dhcp_spawn_at, trig >>
    /\ UNCHANGED << ticks, lag, edge, sir, rxq, negotiator, secop_sock, budget,
                    panicked, tq, stack, irqv, tt_now, dhcpv, secopv,
                    rxlen_at_irq, secop_irqs >>

\* a tracker that does not request the service task
TtNoSecop ==
    /\ At("timeout_tracker", "secop")
    /\ pc' = [pc EXCEPT !["timeout_tracker"] = "ret"]
    /\ UNCHANGED << ticks, lag, edge, sir, rxq, negotiator, secop_sock,
                    budget, panicked, dhcp_spawn_at, rq, tq, stack, irqv,
                    ttv, dhcpv, secopv, trig, rxlen_at_irq, secop_irqs >>

\* secop_task::spawn().ok();
TtSecop ==
    /\ At("timeout_tracker", "secop")
    /\ pc' = [pc EXCEPT !["timeout_tracker"] = "ret"]
    /\ rq' = SpawnQ("secop_task", rq)
    /\ tt_req' = tt_req \cup {"secop_task"}
    /\ tt_rej' = tt_rej \cup {t \in {"secop_task"} : ~SpawnOk(t, rq)}
    /\ UNCHANGED << ticks, lag, edge, sir, rxq, negotiator, secop_sock, budget,
                    panicked, dhcp_spawn_at, tq, stack, irqv, tt_now, tt_saw,
                    dhcpv, secopv, trig, rxlen_at_irq, secop_irqs >>

\* the task returns to the dispatcher
TtReturn ==
    /\ At("timeout_tracker", "ret")
    /\ pc' = [pc EXCEPT !["timeout_tracker"] = "idle"]
    /\ tt_now' = 0
    /\ tt_req' = {}
    /\ tt_rej' = {}
    /\ tt_saw' = None
    /\ UNCHANGED << ticks, lag, edge, sir, rxq, negotiator, secop_sock, budget,
                    panicked, dhcp_spawn_at, rq, tq, stack, irqv, dhcpv,
                    secopv, trig, rxlen_at_irq, secop_irqs >>

(***************************************************************************)
(* dhcp_task: DHCP client task.                                            *)
(***************************************************************************)
\* the interval taken from the result of dhcp.process: never falls back
IntervalNoFallback(r) == IF r = ProcessErr THEN 0 ELSE r
\* match dhcp.process(w5500, now) { Ok(sec) => sec, Err(e) => { ..; 5 } }
Interval(r) == IF r = ProcessErr THEN RETRY_SECS ELSE r

\* (cx.shared.w5500, cx.shared.dhcp, cx.shared.dhcp_spawn_at).lock(..
\* let now = monotonic_secs();
\* let spawn_after_secs = match dhcp.process(w5500, now) { .. };
\* (process may serve and clear the interrupt of the DHCP socket)
DhcpProcess ==
    /\ At("dhcp_task", "lock")
    /\ pc' = [pc EXCEPT !["dhcp_task"] = "store"]
    /\ dhcp_now' = monotonic_secs
    /\ dhcp_saw' = dhcp_spawn_at
    /\ \E r \in ProcessResults :
          /\ dhcp_res' = r
          /\ spawn_after_secs' = Interval(r)
    /\ sir' \in {sir, BitClear(sir, bitmask(DHCP_SN))}
    /\ UNCHANGED << ticks, lag, edge, rxq, negotiator, secop_sock, budget,
                    panicked, dhcp_spawn_at, rq, tq, stack, irqv, ttv, secopv,
                    trig, rxlen_at_irq, secop_irqs >>

\* the clock reading is left out of the new deadline
SpawnAtInterval(now, secs) == secs
\* let spawn_at = now + spawn_after_secs;
spawn_at(now, secs) == now + secs

\* *dhcp_spawn_at = Some(spawn_at);
DhcpStore ==
    /\ At("dhcp_task", "store")
    /\ pc' = [pc EXCEPT !["dhcp_task"] = "ret"]
    /\ dhcp_spawn_at' = Some(spawn_at(dhcp_now, spawn_after_secs))
    /\ trig' = 0
    /\ UNCHANGED << ticks, lag, edge, sir, rxq, negotiator, secop_sock, budget,
                    panicked, rq, tq, stack, irqv, ttv, dhcpv, secopv,
                    rxlen_at_irq, secop_irqs >>

\* the task returns to the dispatcher
DhcpReturn ==
    /\ At("dhcp_task", "ret")
    /\ pc' = [pc EXCEPT !["dhcp_task"] = "idle"]
    /\ dhcp_now' = 0
    /\ dhcp_res' = 0
    /\ spawn_after_secs' = 0
    /\ dhcp_saw' = None
    /\ UNCHANGED << ticks, lag, edge, sir, rxq, negotiator, secop_sock, budget,
                    panicked, dhcp_spawn_at, rq, tq, stack, irqv, ttv, secopv,
                    trig, rxlen_at_irq, secop_irqs >>

(***************************************************************************)
(* secop_task: SECoP server task.                                          *)
(***************************************************************************)
\* (cx.shared.w5500,).lock(|w5500| {
\* let mut buf = [0; 256];
\* let rx_bytes: u16 = w5500.tcp_read(SECOP_SN, &mut buf).unwrap();
SecopRead ==
    /\ At("secop_task", "lock")
    /\ pc' = [pc EXCEPT !["secop_task"] = "write"]
    /\ rx_live' = rxq
    /\ buf' = tcp_read_buf(rxq, ZeroBuf)
    /\ rx_bytes' = tcp_read_len(rxq, ZeroBuf)
    /\ rxq' = tcp_read_rest(rxq, ZeroBuf)
    /\ UNCHANGED << ticks, lag, edge, sir, negotiator, secop_sock, budget,
                    panicked, dhcp_spawn_at, rq, tq, stack, irqv, ttv, dhcpv,
                    tx_sent, secop_served, served_rxlen, trig, rxlen_at_irq,
                    secop_irqs >>

\* the service socket is closed once the data has been echoed
SockClosedAfterEcho(sock) == [sock EXCEPT !.open = FALSE]
\* secop_task issues tcp_read and tcp_write only: the configuration of the
\* service socket is what it was
SockAfterEcho(sock) == sock

\* if rx_bytes > 0 {
\*     w5500.tcp_write(SECOP_SN, &buf[..rx_bytes as usize]).unwrap(); }
SecopWrite ==
    /\ At("secop_task", "write")
    /\ pc' = [pc EXCEPT !["secop_task"] = "ret"]
    /\ secop_sock' = SockAfterEcho(secop_sock)
    /\ tx_sent' = IF rx_bytes > 0 THEN write_slice(buf, rx_bytes) ELSE << >>
    /\ UNCHANGED << ticks, lag, edge, sir, rxq, negotiator, budget, panicked,
                    dhcp_spawn_at, rq, tq, stack, irqv, ttv, dhcpv, buf,
                    rx_bytes, rx_live, secop_served, served_rxlen, trig,
                    rxlen_at_irq, secop_irqs >>

\* the task returns to the dispatcher
SecopReturn ==
    /\ At("secop_task", "ret")
    /\ pc' = [pc EXCEPT !["secop_task"] = "idle"]
    /\ buf' = ZeroBuf
    /\ rx_bytes' = 0
    /\ tx_sent' = << >>
    /\ rx_live' = << >>
    /\ secop_served' = 0
    /\ served_rxlen' = 0
    /\ UNCHANGED << ticks, lag, edge, sir, rxq, negotiator, secop_sock, budget,
                    panicked, dhcp_spawn_at, rq, tq, stack, irqv, ttv, dhcpv,
                    trig, rxlen_at_irq, secop_irqs >>

(***************************************************************************)
(* Specification.                                                          *)
(***************************************************************************)
\* the steps of the program: interrupt entry, dispatcher, task bodies
Program ==
    \/ TimerFire
    \/ DispEnter
    \/ DispNext
    \/ DispExit
    \/ IrqEnter
    \/ IrqReadSir
    \/ IrqClear
    \/ IrqDecode
    \/ IrqReturn
    \/ TtRearm
    \/ TtNow
    \/ TtCheck
    \/ TtSecop
    \/ TtReturn
    \/ DhcpProcess
    \/ DhcpStore
    \/ DhcpReturn
    \/ SecopRead
    \/ SecopWrite
    \/ SecopReturn

Next ==
    \/ Tick
    \/ \E n \in {DHCP_SN, SECOP_SN} : SocketEvent(n)
    \/ \E seg \in Segments : Receive(seg)
    \/ Glitch
    \/ Program

Spec == Init /\ [][Next]_vars

\* The scenario of a negotiator that always fails: the clock runs long
\* enough for a retry to come due; only the DHCP socket raises events, and
\* every burst of handlers completes within the tick in which it started.
TickLong == TickTo(LongTicks, 0)

NextFail ==
    \/ TickLong
    \/ SocketEvent(DHCP_SN)
    \/ Glitch
    \/ Program

SpecFail == InitFail /\ [][NextFail]_vars

\* The scenario of finitely many interrupts under fair scheduling: the
\* processor keeps executing whatever handler is active or pending, and the
\* SysTick counter keeps counting up to the end of the explored range.
InitLive == InitOf("working", Some(MaxEvents))

TickLive == TickTo(LiveTicks, 0)

NextLive ==
    \/ TickLive
    \/ \E n \in {DHCP_SN, SECOP_SN} : SocketEvent(n)
    \/ \E seg \in Segments : Receive(seg)
    \/ Glitch
    \/ Program

SpecLive ==
    /\ InitLive
    /\ [][NextLive]_vars
    /\ WF_vars(Program)
    /\ WF_vars(TickLive)


\* The scenario of the polling fallback: segments arrive on the service
\* socket without an edge on the interrupt line; the only interrupts are
\* those of the DHCP socket. Scheduling is fair as in SpecLive.
NextPoll ==
    \/ TickLive
    \/ SocketEvent(DHCP_SN)
    \/ \E seg \in Segments : ReceiveSilent(seg)
    \/ Program

SpecPoll ==
    /\ InitLive
    /\ [][NextPoll]_vars
    /\ WF_vars(Program)
    /\ WF_vars(TickLive)

(***************************************************************************)
(* Properties.                                                             *)
(***************************************************************************)
Renewal == "dhcp_task"
Echo == "secop_task"

\* task t is requested in this step by irq_bank0 or by timeout_tracker
RequestedNow(t) ==
    \/ t \in irq_req' /\ t \notin irq_req
    \/ t \in tt_req' /\ t \notin tt_req
\* the request made in this step is rejected
RejectedNow(t) ==
    \/ t \in irq_rej' /\ t \notin irq_rej
    \/ t \in tt_rej' /\ t \notin tt_rej

C1_Pending ==
    /\ Count(Renewal, rq) <= 1
    /\ Count(Echo, rq) <= 1
C1_Step ==
    \A t \in {Renewal, Echo} :
        (RequestedNow(t) /\ Count(t, rq) >= 1)
            => (RejectedNow(t) /\ Count(t, rq') = Count(t, rq))
\* C1: at most one instance of Lease Renewal and at most one of Echo Service
\* is queued in any reachable state, and a spawn request made while an
\* instance is already queued is rejected and leaves the queue as it was.
C1_AtMostOnePending == []C1_Pending /\ [][C1_Step]_vars
\* a request of the interrupt handler has just been rejected
C1_Witness ==
    /\ pc["irq_bank0"] = "ret"
    /\ irq_rej # {}
    /\ \A t \in irq_rej : Count(t, rq) = 1

\* C2: at most one of irq_bank0, dhcp_task and secop_task is inside its
\* critical section on the chip handle w5500.
C2_MutualExclusion ==
    Cardinality({t \in {"irq_bank0", Renewal, Echo} : InW5500(t)}) <= 1
\* dhcp_task holds the handle while the interrupt is pending
C2_Witness == InW5500(Renewal) /\ edge

\* C3: an invocation of irq_bank0 that read a zero status has requested no
\* spawn.
C3_ZeroNoSpawn ==
    (pc["irq_bank0"] = "ret" /\ irq_sir = 0) => (irq_req = {} /\ irq_rej = {})
\* the handler is about to return from a spurious interrupt
C3_Witness == pc["irq_bank0"] = "ret" /\ irq_sir = 0

\* C4: after decoding a nonzero status, Lease Renewal has been requested iff
\* bit 0 (the DHCP socket) is set and Echo Service iff bit 1 (the service
\* socket) is set; nothing else is requested.
C4_Demux ==
    (pc["irq_bank0"] = "ret" /\ irq_sir # 0) =>
        /\ (Renewal \in irq_req) <=> (irq_sir % 2 = 1)
        /\ (Echo \in irq_req) <=> ((irq_sir \div 2) % 2 = 1)
        /\ irq_req \subseteq {Renewal, Echo}
\* a status with the DHCP bit and a foreign bit, without the service bit
C4_Witness ==
    /\ pc["irq_bank0"] = "ret"
    /\ irq_sir = 1 + bitmask(OtherSn)
    /\ irq_req = {Renewal}

\* timeout_tracker has made its check of the deadline in this invocation
TtChecked == pc["timeout_tracker"] \in {"secop", "ret"}
\* ... and found the deadline set and reached
TtFoundDue == TtChecked /\ tt_saw # None /\ tt_now >= tt_saw[1]
\* ... and found no deadline, or one still in the future
TtFoundNotDue == TtChecked /\ (tt_saw = None \/ tt_now < tt_saw[1])

\* C5: a tracker tick that finds the deadline set by Lease Renewal reached
\* (now >= deadline) clears it and requests Lease Renewal, and the tracker
\* requests Lease Renewal at most once for one deadline.
C5_OncePerDeadline ==
    /\ TtFoundDue => (dhcp_spawn_at = None /\ Renewal \in tt_req)
    /\ trig <= 1
    /\ (trig = 1) => (dhcp_spawn_at = None)
\* the tick that found the deadline reached exactly (now = deadline)
C5_Witness == TtFoundDue /\ tt_now = tt_saw[1] /\ trig = 1

\* C6: a tracker tick that finds no deadline, or a deadline in the future,
\* requests no Lease Renewal and leaves the deadline as it found it.
C6_NotDueNoSpawn ==
    TtFoundNotDue => (Renewal \notin tt_req /\ dhcp_spawn_at = tt_saw)
\* a tick that found a deadline still in the future
C6_Witness == TtFoundNotDue /\ tt_saw # None /\ pc["timeout_tracker"] = "ret"

\* C7: when secop_task has read an input of 1..256 bytes from the service
\* socket, the bytes it hands to tcp_write are that input, byte for byte.
C7_EchoRoundTrip ==
    (pc[Echo] = "ret" /\ Len(rx_live) \in 1..256) =>
        /\ Len(tx_sent) = Len(rx_live)
        /\ \A i \in 1..Len(rx_live) : tx_sent[i] = rx_live[i]
\* an input shorter than the buffer has been echoed
C7_Witness ==
    /\ pc[Echo] = "ret"
    /\ Len(rx_live) \in 1..255
    /\ tx_sent = rx_live

\* C8: with a negotiator whose process call always fails, every run of
\* dhcp_task records the deadline now + 5, nothing panics, and the cycle goes
\* on: a deadline is never more than 5 s ahead of the clock, and whenever no
\* deadline is set, a run of dhcp_task is queued or in progress.
C8_FailingRetries ==
    /\ ~panicked
    /\ (pc[Renewal] = "ret") =>
           (dhcp_res = ProcessErr /\ dhcp_spawn_at = Some(dhcp_now + 5))
    /\ (dhcp_spawn_at # None) => (dhcp_spawn_at[1] <= monotonic_secs + 5)
    /\ (dhcp_spawn_at = None) => (Count(Renewal, rq) = 1 \/ pc[Renewal] # "idle")
\* the third failing run in a row: at 0 s, 5 s and now at 10 s
C8_Witness ==
    /\ negotiator = "failing"
    /\ pc[Renewal] = "ret"
    /\ dhcp_now = 10
    /\ dhcp_spawn_at = Some(15)

\* C9: when irq_bank0 has requested secop_task twice or more before the
\* requested run starts, the later requests are rejected, one instance is
\* queued and no second one follows it, and the instance reads what the
\* socket holds at the moment it runs.
C9_CoalescedInterrupts ==
    /\ (secop_irqs >= 2) => (Count(Echo, rq) = 1)
    /\ (pc["irq_bank0"] = "ret" /\ Echo \in irq_req /\ secop_irqs >= 2) =>
           (Echo \in irq_rej)
    /\ (pc[Echo] # "idle" /\ secop_served >= 2) => (Count(Echo, rq) = 0)
    /\ (pc[Echo] \in {"write", "ret"}) =>
           /\ rx_bytes = Min2(Len(rx_live), BUF_LEN)
           /\ \A i \in 1..rx_bytes : buf[i] = rx_live[i]
\* the one run that serves two interrupts reads data that arrived after both
C9_Witness ==
    /\ pc[Echo] = "ret"
    /\ secop_served = 2
    /\ served_rxlen # Len(rx_live)
    /\ rx_bytes > 0

\* C10 as stated: irq_bank0 has a strictly higher priority than the three
\* software tasks, so that a pending interrupt is taken before a software
\* task outside its critical section on the chip handle takes another step,
\* and irq_bank0 itself is never preempted.
C10_IrqPreempts ==
    /\ [](Active("irq_bank0") => stack[Len(stack)] = "irq_bank0")
    /\ [][(IrqPending /\ \E t \in Cur : ~InW5500(t)) =>
             (\A t \in SoftTasks : pc'[t] = pc[t])]_vars

\* C10, amended: irq_bank0 runs at the same (default) priority as the three
\* software tasks, which shows in that no handler ever preempts another:
\* irq_bank0 never runs while a software task is in progress, and no
\* software task runs while irq_bank0 is in progress.
C10_EqualPriority ==
    /\ Len(stack) <= 1
    /\ (pc["irq_bank0"] # "idle") => (Cur = {} /\ ~Active("disp"))
\* an interrupt is pending while timeout_tracker is past its first step, not
\* holding the chip handle
C10_Witness ==
    /\ IrqPending
    /\ pc["timeout_tracker"] = "secop"
    /\ ~InW5500("timeout_tracker")
    /\ sir # 0

\* some handler is active or pending
Busy == stack # << >> \/ rq # << >> \/ IrqPending \/ TqDue

\* an instance leaves the ready queue only by starting, a start takes one
\* instance from the ready queue, and an instance leaves the timer queue only
\* into the ready queue
C11_StartsOnce ==
    /\ \A t \in SoftTasks :
          /\ (pc[t] = "idle" /\ pc'[t] # "idle") =>
                 (Count(t, rq') = Count(t, rq) - 1)
          /\ (Count(t, rq') < Count(t, rq)) =>
                 (pc[t] = "idle" /\ pc'[t] # "idle")
    /\ (Len(tq') < Len(tq)) =>
           (Count("timeout_tracker", rq') = Count("timeout_tracker", rq) + 1)

\* C11: nothing blocks and nothing is cancelled. Under fair scheduling and
\* finitely many interrupts, every instance in the ready queue starts, every
\* started instance returns, a scheduled tracker instance whose release
\* instant lies in the explored range starts, each instance runs once, and
\* whenever a handler is active or pending the program can take a step.
C11_RunsToCompletion ==
    /\ [](~panicked /\ (Busy => ENABLED Program))
    /\ [][C11_StartsOnce]_vars
    /\ \A t \in SoftTasks : (Count(t, rq) > 0) ~> (pc[t] # "idle")
    /\ \A t \in SoftTasks : (pc[t] # "idle") ~> (pc[t] = "idle")
    /\ (tq # << >> /\ Head(tq) <= LiveTicks) ~> (pc["timeout_tracker"] # "idle")
\* all interrupts have occurred, and the instance of secop_task that
\* irq_bank0 requested is running
C11_Witness ==
    /\ budget = Some(0)
    /\ pc[Echo] = "write"
    /\ secop_served >= 1
    /\ ticks = LiveTicks

\* C12: a tracker tick that finds the deadline reached leaves the deadline
\* unset both when its request for dhcp_task was accepted and when it was
\* rejected because an instance was already queued.
C12_ClearedEitherWay ==
    /\ (TtFoundDue /\ Renewal \notin tt_rej) => (dhcp_spawn_at = None)
    /\ (TtFoundDue /\ Renewal \in tt_rej) =>
           (dhcp_spawn_at = None /\ Count(Renewal, rq) = 1)
\* the deadline was reached while an instance requested by irq_bank0 was
\* still queued: the tracker's request was rejected
C12_Witness == TtFoundDue /\ Renewal \in tt_rej /\ pc["timeout_tracker"] = "ret"

\* C13: when dhcp_task has run, the deadline is set to the clock reading it
\* took plus the seconds the negotiator returned, or plus 5 when the
\* negotiator failed, whether the run found no deadline (requested by the
\* tracker or by init), a future one or an overdue one (requested by
\* irq_bank0).
C13_DeadlineAfterRun ==
    (pc[Renewal] = "ret") =>
        /\ dhcp_spawn_at # None
        /\ (dhcp_res = ProcessErr) => (dhcp_spawn_at[1] = dhcp_now + 5)
        /\ (dhcp_res # ProcessErr) => (dhcp_spawn_at[1] = dhcp_now + dhcp_res)
\* a run requested by irq_bank0 that found an overdue deadline and replaced
\* it with the interval the negotiator returned
C13_Witness ==
    /\ pc[Renewal] = "ret"
    /\ dhcp_saw # None
    /\ dhcp_saw[1] <= dhcp_now
    /\ dhcp_now > 0
    /\ dhcp_res # ProcessErr

\* C14: in every invocation of timeout_tracker the next invocation is
\* scheduled, one period ahead, before the clock is read, before
\* dhcp_spawn_at is locked and before any spawn request is made.
C14_RearmFirst ==
    /\ (pc["timeout_tracker"] = "rearm") =>
           (tt_now = 0 /\ tt_saw = None /\ tt_req = {} /\ tt_rej = {})
    /\ (pc["timeout_tracker"] \in {"now", "check", "secop", "ret"}) =>
           /\ Len(tq) = 1
           /\ Head(tq) > ticks
           /\ Head(tq) <= ticks + 10
\* the second invocation has re-armed and is about to read the clock
C14_Witness ==
    /\ pc["timeout_tracker"] = "now"
    /\ ticks >= 10
    /\ tq = << ticks + 10 >>
    /\ tt_req = {}

\* socket n raised its interrupt after this invocation of irq_bank0 had read
\* SIR: its bit is set in the chip, but not in the value being decoded (no
\* task that clears SIR bits can run while irq_bank0 is active)
RaisedDuringIrq(n) == BitSet(sir, n) /\ ~BitSet(irq_sir, n)

\* C15: when an invocation of irq_bank0 that read a nonzero status returns,
\* every socket event raised during the invocation is reflected in the
\* status value it decoded, or the interrupt is pending again so that a
\* later invocation follows: no edge is lost.
C15_NoEdgeLost ==
    (pc["irq_bank0"] = "ret" /\ irq_sir # 0) =>
        \A n \in {DHCP_SN, SECOP_SN} : RaisedDuringIrq(n) => edge

\* a step of irq_bank0 after it has read a zero status
ZeroIrqStep ==
    /\ pc["irq_bank0"] \in {"clear", "decode"}
    /\ irq_sir = 0
    /\ pc'["irq_bank0"] # pc["irq_bank0"]

\* shared and hardware state other than the edge latch is left as it was
SharedFrame ==
    /\ rq' = rq
    /\ tq' = tq
    /\ dhcp_spawn_at' = dhcp_spawn_at
    /\ sir' = sir
    /\ rxq' = rxq
    /\ irq_req' = {}

\* C16 as stated: after a zero status read, irq_bank0 requests no spawn,
\* does not clear the line-level interrupt and changes no shared or hardware
\* state.
C16_ZeroLeavesEdge == [][ZeroIrqStep => (edge' = edge /\ SharedFrame)]_vars

\* C16, amended: after a zero status read, irq_bank0 clears the line-level
\* interrupt, as in every invocation, and then returns: it requests no spawn
\* and changes no other shared or hardware state.
C16_ZeroClearsEdgeOnly ==
    [][ZeroIrqStep =>
         /\ SharedFrame
         /\ (pc["irq_bank0"] = "clear") => (edge /\ ~edge')
         /\ (pc["irq_bank0"] = "decode") => (edge' = edge)]_vars
\* irq_bank0 returns from a spurious interrupt, the latch cleared
C16_Witness ==
    /\ pc["irq_bank0"] = "ret"
    /\ irq_sir = 0
    /\ sir = 0
    /\ ~edge

\* C17: after startup no task closes, re-opens or reconfigures the service
\* socket: it stays open on the port and with the interrupt mask that init
\* set, across all invocations, also when dhcp.process has failed.
C17_SocketLeftListening ==
    /\ secop_sock.open
    /\ secop_sock.port = 10767
    /\ secop_sock.imr = {"recv", "con", "discon"}
\* secop_task has echoed data after a run of dhcp_task in which the
\* negotiator failed
C17_Witness ==
    /\ pc[Echo] = "ret"
    /\ rx_bytes > 0
    /\ dhcp_spawn_at = Some(5)
    /\ secop_sock = Listening

\* an invocation of timeout_tracker that has yet to make its request for
\* secop_task is queued, running, or scheduled within the explored range
TrackerAhead ==
    \/ Count("timeout_tracker", rq) > 0
    \/ pc["timeout_tracker"] \in {"rearm", "now", "check", "secop"}
    \/ tq # << >> /\ Head(tq) <= LiveTicks

\* C18: every invocation of timeout_tracker requests secop_task, whatever it
\* found as the deadline, and goes on when the request is rejected; hence
\* bytes waiting in the service socket for which no interrupt was delivered
\* are read by a run of secop_task once the next tracker tick has come.
C18_PollingFallback ==
    /\ [](pc["timeout_tracker"] = "ret" =>
              (Echo \in tt_req /\ Count(Echo, rq) = 1 /\ ~panicked))
    /\ (rxq # << >> /\ TrackerAhead) ~> (pc[Echo] = "write" /\ rx_bytes > 0)
\* a run of secop_task that no interrupt asked for has read waiting bytes
C18_Witness ==
    /\ pc[Echo] = "write"
    /\ rx_bytes > 0
    /\ secop_served = 0
    /\ ~edge
    /\ ticks >= 10

\* C19: renewal never stalls. In every state the deadline is set, or an
\* instance of dhcp_task is queued or running; in particular when the tracker
\* has cleared the deadline after a rejected request.
C19_RenewalNeverStalls ==
    \/ dhcp_spawn_at # None
    \/ Count(Renewal, rq) >= 1
    \/ pc[Renewal] # "idle"
\* the tracker has cleared the deadline although its request was rejected:
\* the instance that irq_bank0 queued is what keeps renewal going
C19_Witness ==
    /\ pc["timeout_tracker"] = "secop"
    /\ Renewal \in tt_rej
    /\ dhcp_spawn_at = None
    /\ Count(Renewal, rq) = 1
    /\ pc[Renewal] = "idle"

\* instances of timeout_tracker in the ready queue and in the timer queue
TrackerOutstanding == Count("timeout_tracker", rq) + Len(tq)

\* C20: at most one instance of timeout_tracker is queued or scheduled, and
\* exactly one whenever none is running; no other task requests it; when an
\* invocation starts none is outstanding, so its re-arm is accepted and the
\* unwrap never panics; the chain of ticks is never broken.
C20_TrackerChain ==
    /\ TrackerOutstanding <= 1
    /\ (pc["timeout_tracker"] = "idle") => (TrackerOutstanding = 1)
    /\ (pc["timeout_tracker"] = "rearm") => (TrackerOutstanding = 0)
    /\ (pc["timeout_tracker"] \notin {"idle", "rearm"}) => (Len(tq) = 1)
    /\ "timeout_tracker" \notin (irq_req \cup tt_req)
    /\ ~panicked
\* the second invocation has returned and the third is scheduled
C20_Witness ==
    /\ pc["timeout_tracker"] = "idle"
    /\ stack = << >>
    /\ ticks >= 10
    /\ tq = << 20 >>
    /\ ~panicked
=============================================================================
